---- MODULE Spec2Model ----
(***************************************************************************)
(* The request pipeline of fastapi_client's ApiClient (api_client.py):     *)
(* path-template substitution, the middleware chain built by               *)
(* add_middleware, the transport call of send_inner and the status check   *)
(* and decoding of send.                                                   *)
(*                                                                         *)
(* Text (URLs, templates, parameter values) is a sequence of one-character *)
(* strings, so that substitution works on characters as str.format does.   *)
(***************************************************************************)
EXTENDS Integers, Sequences, FiniteSets, TLC

(***************************************************************************)
(* Bounds of the model.                                                    *)
(***************************************************************************)
\* longest URL template enumerated by the formatting specification
MaxTplLen == 5
\* most stages add_middleware may add
MaxStages == 2
\* most calls of the transport in one send: a retrying stage that finds this
\* many made gives up
MaxSends == 2

\* starlette.status.HTTP_200_OK, the only status send decodes
HTTP_200_OK == 200

(***************************************************************************)
(* Optional values: Python's None against a present value.                 *)
(***************************************************************************)
NoneV == [none |-> TRUE, v |-> <<>>]
Some(x) == [none |-> FALSE, v |-> x]

(***************************************************************************)
(* str.format with keyword arguments, as CPython's MarkupIterator scans    *)
(* a template: "{{" and "}}" are escaped braces, a lone "}" or a trailing   *)
(* "{" is a ValueError, "{name}" looks name up in kwargs (KeyError when    *)
(* absent), "{}" asks for positional argument 0 (IndexError: request       *)
(* passes none), a "{" inside a field name is a ValueError, and the value  *)
(* found is inserted as it is and never scanned again.                     *)
(***************************************************************************)
FormatOk(s) == [err |-> "", s |-> s]
FormatErr(e) == [err |-> e, s |-> <<>>]
FormatCat(s, r) == IF r.err = "" THEN FormatOk(s \o r.s) ELSE r

\* first position at or after i holding a brace, Len(tpl) + 1 when none does
RECURSIVE FieldEnd(_, _)
FieldEnd(tpl, i) ==
    IF i > Len(tpl) THEN i
    ELSE IF tpl[i] \in {"{", "}"} THEN i
    ELSE FieldEnd(tpl, i + 1)

\* a lookup that leaves the token of a missing name in place instead of failing
LookupFieldLenient(tpl, i, j, kw) ==
    LET name == SubSeq(tpl, i, j - 1)
    IN  IF name \in DOMAIN kw THEN FormatOk(kw[name])
        ELSE FormatOk(SubSeq(tpl, i - 1, j))

\* the replacement field tpl[i-1..j], "{name}": name looked up in kw
LookupField(tpl, i, j, kw) ==
    LET name == SubSeq(tpl, i, j - 1)
    IN  IF name = <<>> THEN FormatErr("IndexError")
        ELSE IF name \notin DOMAIN kw THEN FormatErr("KeyError")
        ELSE FormatOk(kw[name])

RECURSIVE FormatFrom(_, _, _)
FormatFrom(tpl, i, kw) ==
    IF i > Len(tpl) THEN FormatOk(<<>>)
    ELSE IF tpl[i] = "}" THEN
        IF i < Len(tpl) /\ tpl[i + 1] = "}"
        THEN FormatCat(<<"}">>, FormatFrom(tpl, i + 2, kw))
        ELSE FormatErr("ValueError")
    ELSE IF tpl[i] = "{" THEN
        IF i = Len(tpl) THEN FormatErr("ValueError")
        ELSE IF tpl[i + 1] = "{"
        THEN FormatCat(<<"{">>, FormatFrom(tpl, i + 2, kw))
        ELSE LET j == FieldEnd(tpl, i + 1)
             IN  IF j > Len(tpl) THEN FormatErr("ValueError")
                 ELSE IF tpl[j] = "{" THEN FormatErr("ValueError")
                 ELSE LET f == LookupField(tpl, i + 1, j, kw)
                      IN  IF f.err # "" THEN f
                          ELSE FormatCat(f.s, FormatFrom(tpl, j + 1, kw))
    ELSE FormatCat(<<tpl[i]>>, FormatFrom(tpl, i + 1, kw))

Format(tpl, kw) == FormatFrom(tpl, 1, kw)

\* lines 51-52: an absent path_params is the empty mapping
ParamsOrEmpty(path_params) == IF path_params.none THEN <<>> ELSE path_params.v

\* a prefix that forgets the host
HostDropped(h) == <<>>

\* line 53: (self.host or "") -- None and "" both give the empty prefix
HostOrEmpty(h) == IF h.none \/ h.v = <<>> THEN <<>> ELSE h.v

\* line 53: the URL, or the formatting error
BuildUrl(h, url, path_params) ==
    FormatCat(HostOrEmpty(h), Format(url, ParamsOrEmpty(path_params)))

\* line 54: the AsyncRequest built from method, url and the remaining options;
\* marks is what the stages of the chain add to it on the way down
Request(method, url, kwargs) ==
    [method |-> method, url |-> url, kwargs |-> kwargs, marks |-> <<>>]

(***************************************************************************)
(* Decoding, line 72: _ResultMaker[type_](result=response.json()).result.  *)
(* A body is the raw text of the response; response.json() parses it and   *)
(* raises a JSON decode error (a ValueError, not pydantic's                *)
(* ValidationError) on text that is not JSON.  A JSON value is a kind and  *)
(* its text: the number 1 is <<int, "1">>, the string "1" is <<str, "1">>. *)
(***************************************************************************)
JNull == [k |-> "null", v |-> ""]
JInt(t) == [k |-> "int", v |-> t]
JStr(t) == [k |-> "str", v |-> t]

Bodies == {"", "null", "1", "\"1\"", "\"a\""}

\* response.json()
Json(body) ==
    CASE body = "null" -> [err |-> "", val |-> JNull]
      [] body = "1" -> [err |-> "", val |-> JInt("1")]
      [] body = "\"1\"" -> [err |-> "", val |-> JStr("1")]
      [] body = "\"a\"" -> [err |-> "", val |-> JStr("a")]
      [] OTHER -> [err |-> "JSONDecodeError", val |-> JNull]

\* text that Python's int() accepts
IsIntText(t) == t \in {"1"}

Types == {"int", "str", "None"}

\* lines 17-18 and 72: pydantic's validation of the field result: T.  int
\* takes a number and coerces numeric text, str takes text and coerces a
\* number, None takes null only (pydantic's documented NoneType field).
Validate(type_, val) ==
    CASE type_ = "int" /\ val.k = "int" -> [err |-> "", val |-> val]
      [] type_ = "int" /\ val.k = "str" /\ IsIntText(val.v) ->
            [err |-> "", val |-> JInt(val.v)]
      [] type_ = "str" /\ val.k = "str" -> [err |-> "", val |-> val]
      [] type_ = "str" /\ val.k = "int" -> [err |-> "", val |-> JStr(val.v)]
      [] type_ = "None" /\ val.k = "null" -> [err |-> "", val |-> val]
      [] OTHER -> [err |-> "ValidationError", val |-> JNull]

(***************************************************************************)
(* What travels up the chain: a response, or a raised exception.           *)
(***************************************************************************)
Response(status_code, body) ==
    [exc |-> FALSE, status_code |-> status_code, body |-> body,
     marks |-> <<>>, cls |-> "", source |-> ""]
Raised(cls, source) ==
    [exc |-> TRUE, status_code |-> 0, body |-> "",
     marks |-> <<>>, cls |-> cls, source |-> source]

\* line 74 and line 81: ApiRequestException(e), e wrapped as its source
ApiRequestException(e) == Raised("ApiRequestException", e)

\* what UnexpectedResponse.for_response takes from the response for the
\* caller to inspect: the status code and the body
for_response(response) ==
    [status_code |-> response.status_code, body |-> response.body]

\* line 75: the UnexpectedResponse raised for a response
UnexpectedResponse(response) ==
    [exc |-> TRUE, status_code |-> for_response(response).status_code,
     body |-> for_response(response).body,
     marks |-> <<>>, cls |-> "UnexpectedResponse", source |-> ""]

(***************************************************************************)
(* What the caller of request gets: a value, or an error.  did lists what  *)
(* send did with the response on the way: "status" the check of line 70,   *)
(* "json" the parse and "validate" the validation of line 72.              *)
(***************************************************************************)
NoOutcome == [kind |-> "none", val |-> JNull, err |-> Raised("", ""), did |-> <<>>]
Returns(val, did) ==
    [kind |-> "return", val |-> val, err |-> Raised("", ""), did |-> did]

\* an error swallowed: the caller gets None in its place
RaisesNothing(e, did) == Returns(JNull, did)

\* the error e raised to the caller
Raises(e, did) ==
    [kind |-> "raise", val |-> JNull, err |-> [e EXCEPT !.marks = <<>>], did |-> did]

\* a decoding that forgets the validated value and answers None
DecodeReturnsNone(response, type_) ==
    LET j == Json(response.body)
    IN  IF j.err # ""
        THEN Raises(Raised(j.err, ""), <<"status", "json">>)
        ELSE LET r == Validate(type_, j.val)
             IN  IF r.err # ""
                 THEN Raises(ApiRequestException(r.err),
                             <<"status", "json", "validate">>)
                 ELSE Returns(JNull, <<"status", "json", "validate">>)

\* lines 71-74: parse, validate, and wrap a ValidationError
Decode(response, type_) ==
    LET j == Json(response.body)
    IN  IF j.err # ""
        THEN Raises(Raised(j.err, ""), <<"status", "json">>)
        ELSE LET r == Validate(type_, j.val)
             IN  IF r.err # ""
                 THEN Raises(ApiRequestException(r.err),
                             <<"status", "json", "validate">>)
                 ELSE Returns(r.val, <<"status", "json", "validate">>)

\* a classification that takes every 2xx status for success
ClassifyAny2xx(response, type_) ==
    IF response.status_code \in 200..299
    THEN Decode(response, type_)
    ELSE Raises(UnexpectedResponse(response), <<"status">>)

\* a classification that raises one class for every cause
ClassifyOneClass(response, type_) ==
    IF response.status_code = HTTP_200_OK
    THEN Decode(response, type_)
    ELSE Raises(ApiRequestException("UnexpectedResponse"), <<"status">>)

\* lines 70-75: the status check, then the decoding or UnexpectedResponse
Classify(response, type_) ==
    IF response.status_code = HTTP_200_OK
    THEN Decode(response, type_)
    ELSE Raises(UnexpectedResponse(response), <<"status">>)

(***************************************************************************)
(* Middleware stages.  A stage is any callable (request, call_next) ->      *)
(* response (line 22); the model runs four behaviours of one:              *)
(*   pass   forwards the request, calls call_next once, returns the        *)
(*          response;                                                      *)
(*   short  returns a response of its own without calling call_next;       *)
(*   catch  as pass, but answers an error of call_next with a response;    *)
(*   retry  as pass, but calls call_next a second time after an error,     *)
(*          as long as the send has called the transport less than         *)
(*          MaxSends times.                                                *)
(* A stage of the chain is its behaviour and id, its place in the order of *)
(* addition.  A stage leaves its id in the marks of the request it         *)
(* forwards and of the response it returns.                                *)
(***************************************************************************)
Kinds == {"pass", "short", "catch", "retry"}

Mark(x, k) == [x EXCEPT !.marks = Append(@, k)]

Statuses == {200, 201, 204, 301, 404, 500}
TransportFailures == {"ConnectError", "ReadTimeout"}

\* what the transport may answer a request with
TransportOutcomes ==
    {Response(st, b) : st \in Statuses, b \in Bodies}
        \cup {Raised(e, "") : e \in TransportFailures}

\* the responses a stage makes up by itself
StageResponses == {Response(200, "1"), Response(404, "")}

NoRequest == Request("", <<>>, "")

(***************************************************************************)
(* State.  host, chain (self.middleware) and async_client are the client's *)
(* fields; calls holds each call in progress.                              *)
(***************************************************************************)
VARIABLES host, chain, async_client, calls

vars == <<host, chain, async_client, calls>>

CallIds == {1, 2}

\* A call that has not begun.  Of a call: pc is where its coroutine stands
\* (idle, built: the Request exists, down: a head is being called, transport:
\* send_inner awaits the transport, up: a result is coming back, done);
\* args and type_ are what request was called with; request is the Request
\* of line 54; head is the chain head read at line 69 and level the head
\* being called, 0 for BaseMiddleware; arg is the request passed on; stk
\* holds the stages awaiting call_next; result is the response or error
\* coming back; outcome is what the caller gets.  trace, sent, answers and
\* nexts record what ran: the phases of the stages and the transport, the
\* requests the transport was given, its answers, and how often the stage
\* at each level called call_next.  sync tells a call made through
\* request_sync (pc loop: the event loop has been given the coroutine).
Idle ==
    [pc |-> "idle", type_ |-> "None", sync |-> FALSE,
     args |-> [url |-> <<>>, path_params |-> NoneV, method |-> "", kwargs |-> ""],
     request |-> NoRequest,
     head |-> <<>>, level |-> 0, arg |-> NoRequest, stk |-> <<>>,
     result |-> Raised("", ""), outcome |-> NoOutcome,
     trace |-> <<>>, sent |-> <<>>, answers |-> <<>>, nexts |-> <<>>]

Init ==
    /\ host \in {NoneV, Some(<<>>), Some(<<"h">>)}
    /\ chain = <<>>
    /\ async_client = "AsyncClient"
    /\ calls = [c \in CallIds |-> Idle]

\* lines 48-55, up to the call of send: the formatting error of line 53
\* ends the call before a Request exists
request(c, tpls, pps, types, methods, opts) ==
    /\ calls[c].pc \in {"idle", "loop"}
    /\ \E url \in tpls, path_params \in pps, type_ \in types,
          method \in methods, kwargs \in opts :
         LET u == BuildUrl(host, url, path_params)
             a == [url |-> url, path_params |-> path_params,
                   method |-> method, kwargs |-> kwargs]
         IN  IF u.err # ""
             THEN calls' = [calls EXCEPT ![c] =
                     [@ EXCEPT !.pc = "done", !.type_ = type_, !.args = a,
                               !.outcome = Raises(Raised(u.err, ""), <<>>)]]
             ELSE calls' = [calls EXCEPT ![c] =
                     [@ EXCEPT !.pc = "built", !.type_ = type_, !.args = a,
                               !.request = Request(method, u.s, kwargs)]]
    /\ UNCHANGED <<host, chain, async_client>>

\* the event loop is running under another call's run_until_complete
LoopRunning(c) ==
    \E d \in CallIds \ {c} :
        calls[d].sync /\ calls[d].pc \in {"loop", "built", "down", "transport", "up"}

\* lines 65-66: the coroutine of request is given to the event loop, which
\* runs it to its end; a loop that is running already refuses with a
\* RuntimeError and the coroutine never starts
request_sync(c) ==
    /\ calls[c].pc = "idle"
    /\ IF LoopRunning(c)
       THEN calls' = [calls EXCEPT ![c] =
               [@ EXCEPT !.pc = "done", !.sync = TRUE,
                         !.outcome = Raises(Raised("RuntimeError", ""), <<>>)]]
       ELSE calls' = [calls EXCEPT ![c] = [@ EXCEPT !.pc = "loop", !.sync = TRUE]]
    /\ UNCHANGED <<host, chain, async_client>>

\* a send that starts at the head the client was built with, whatever
\* add_middleware has put in its place
ChainHeadInitial(ch) == <<>>

\* line 69: self.middleware is read once, when the chain is entered
ChainHead(ch) == ch

\* line 69: self.middleware(request, self.send_inner)
send(c) ==
    /\ calls[c].pc = "built"
    /\ calls' = [calls EXCEPT ![c] =
            [@ EXCEPT !.pc = "down", !.head = ChainHead(chain),
                      !.level = Len(ChainHead(chain)), !.arg = calls[c].request,
                      !.nexts = [i \in 1..Len(ChainHead(chain)) |-> 0]]]
    /\ UNCHANGED <<host, chain, async_client>>

\* a head whose stage calls the transport at once, whatever lies below
InnerHeadSkipped(k) == 0

\* lines 85 and 89: the head found when stage k was added, the one below it;
\* head 0 is BaseMiddleware
InnerHead(k) == k - 1

\* an inner_send that hands on the request its head was called with
inner_send_outer(req, outer) == outer

\* lines 88-89: inner_send hands on the request the stage called it with,
\* not the one of line 87 its name shadows
inner_send(req, outer) == req

\* stages that all call their call_next
CallsNextAlways(kind) == TRUE

\* line 91: whether the stage, once called, calls the call_next it was given
CallsNext(kind) == kind # "short"

\* lines 87-91: head k calls stage k with the request and an inner_send that
\* leads to head k-1; the stage runs up to its call of call_next
new_middleware(c) ==
    LET s == calls[c]
        k == s.level
        id == s.head[k].id
    IN  /\ s.pc = "down"
        /\ k >= 1
        /\ IF ~CallsNext(s.head[k].kind)
           THEN \E r \in StageResponses :
                  calls' = [calls EXCEPT ![c] =
                     [@ EXCEPT !.pc = "up", !.result = Mark(r, id),
                               !.trace = @ \o <<<<"req", id>>, <<"resp", id>>>>]]
           ELSE calls' = [calls EXCEPT ![c] =
                     [@ EXCEPT !.stk = Append(@, [level |-> k, req |-> s.arg,
                                                   calls |-> 1]),
                               !.arg = inner_send(Mark(s.arg, id), s.arg),
                               !.level = InnerHead(k),
                               !.nexts[k] = @ + 1,
                               !.trace = Append(@, <<"req", id>>)]]
        /\ UNCHANGED <<host, chain, async_client>>

\* lines 26-27: the innermost head calls call_next, which is send_inner
BaseMiddleware(c) ==
    /\ calls[c].pc = "down"
    /\ calls[c].level = 0
    /\ calls' = [calls EXCEPT ![c] = [@ EXCEPT !.pc = "transport"]]
    /\ UNCHANGED <<host, chain, async_client>>

\* a send_inner that lets the transport's failure through as it is
WrapNothing(o) == o

\* a send_inner that checks the status itself and raises UnexpectedResponse
\* from inside the chain
WrapAndCheck(o) ==
    IF o.exc THEN ApiRequestException(o.cls)
    ELSE IF o.status_code # HTTP_200_OK THEN UnexpectedResponse(o)
    ELSE o

\* lines 78-82: a failure of the transport is wrapped, a response returned
WrapFailure(o) == IF o.exc THEN ApiRequestException(o.cls) ELSE o

\* a transport call that is given the request of the first call, as if the
\* request were kept on the client and not in the call
SendInnerRequestShared(c) == calls[1].arg

\* lines 77 and 79: the request send_inner was called with, a parameter of
\* this call's own coroutine
SendInnerRequest(c) == calls[c].arg

\* lines 77-82: the transport is given the request and answers
send_inner(c, outs) ==
    /\ calls[c].pc = "transport"
    /\ \E o \in outs :
         calls' = [calls EXCEPT ![c] =
            [@ EXCEPT !.pc = "up", !.result = WrapFailure(o),
                      !.sent = Append(@, SendInnerRequest(c)),
                      !.answers = Append(@, o),
                      !.trace = Append(@, <<"transport", 0>>)]]
    /\ UNCHANGED <<host, chain, async_client>>

\* the errors "except Exception" does not catch when they arrive unwrapped
BaseExceptions == {"CancelledError"}

\* line 79, the task cancelled while it awaits the transport (by the caller,
\* or by a timeout set around the call): CancelledError is raised at the
\* await.  It derives from Exception up to Python 3.7, where line 80 catches
\* and wraps it, and from BaseException from Python 3.8 on, where line 80
\* lets it through; both interpreters run the client.
cancel(c) ==
    /\ calls[c].pc = "transport"
    /\ \E caught \in BOOLEAN :
         calls' = [calls EXCEPT ![c] =
            [@ EXCEPT !.pc = "up",
                      !.result = IF caught
                                 THEN ApiRequestException("CancelledError")
                                 ELSE Raised("CancelledError", ""),
                      !.sent = Append(@, SendInnerRequest(c)),
                      !.answers = Append(@, Raised("CancelledError", "")),
                      !.trace = Append(@, <<"transport", 0>>)]]
    /\ UNCHANGED <<host, chain, async_client>>

\* a return that drops every stage still waiting for its call_next
PopAll(q) == <<>>

\* the stage on top of the stack has finished
Pop(q) == SubSeq(q, 1, Len(q) - 1)

\* lines 89 and 91: call_next comes back into the stage on top of the stack,
\* with a response or with an error, and the stage finishes or calls again;
\* the trace notes an error coming out of the stage's call_next as err
middleware_return(c) ==
    LET s == calls[c]
        f == s.stk[Len(s.stk)]
        k == f.level
        id == s.head[k].id
        kind == s.head[k].kind
    IN  /\ s.pc = "up"
        /\ s.stk # <<>>
        /\ IF ~s.result.exc
           THEN calls' = [calls EXCEPT ![c] =
                   [@ EXCEPT !.stk = Pop(@), !.result = Mark(@, id),
                             !.trace = Append(@, <<"resp", id>>)]]
           ELSE IF kind = "catch" /\ s.result.cls \notin BaseExceptions
           THEN \E r \in StageResponses :
                  calls' = [calls EXCEPT ![c] =
                     [@ EXCEPT !.stk = Pop(@), !.result = Mark(r, id),
                               !.trace = @ \o <<<<"err", id>>, <<"resp", id>>>>]]
           ELSE IF kind = "retry" /\ f.calls < 2
                                  /\ Len(s.sent) < MaxSends
                                  /\ s.result.cls \notin BaseExceptions
           THEN calls' = [calls EXCEPT ![c] =
                   [@ EXCEPT !.stk[Len(s.stk)].calls = 2,
                             !.pc = "down",
                             !.arg = inner_send(Mark(f.req, id), f.req),
                             !.level = InnerHead(k),
                             !.nexts[k] = @ + 1,
                             !.trace = Append(@, <<"err", id>>)]]
           ELSE calls' = [calls EXCEPT ![c] =
                   [@ EXCEPT !.stk = Pop(@),
                             !.trace = Append(@, <<"err", id>>)]]
        /\ UNCHANGED <<host, chain, async_client>>

\* lines 69-75: the chain head has come back to send; an error goes on to
\* the caller, a response is classified
send_return(c) ==
    LET s == calls[c]
    IN  /\ s.pc = "up"
        /\ s.stk = <<>>
        /\ calls' = [calls EXCEPT ![c] =
              [@ EXCEPT !.pc = "done",
                        !.outcome = IF s.result.exc
                                    THEN Raises(s.result, <<>>)
                                    ELSE Classify(s.result, s.type_)]]
        /\ UNCHANGED <<host, chain, async_client>>

\* the caller has its outcome; the next call may begin
Return(c) ==
    /\ calls[c].pc = "done"
    /\ calls' = [calls EXCEPT ![c] = Idle]
    /\ UNCHANGED <<host, chain, async_client>>

\* a head that holds the new stage alone and forgets the stages before it
WrapReplace(current_middleware, middleware) == <<middleware>>

\* a head that puts the new stage innermost, next to the transport
WrapInside(current_middleware, middleware) ==
    <<middleware>> \o current_middleware

\* lines 87-91: the new head runs the new stage first, and the stage's
\* call_next leads to the head found at line 85.  A head is the sequence of
\* its stages, innermost first.
WrapOutside(current_middleware, middleware) ==
    Append(current_middleware, middleware)

\* lines 84-93
add_middleware(kinds) ==
    /\ Len(chain) < MaxStages
    /\ \E kind \in kinds :
         chain' = WrapOutside(chain, [id |-> Len(chain) + 1, kind |-> kind])
    /\ UNCHANGED <<host, calls, async_client>>

(***************************************************************************)
(* The pipeline specification: one call at a time, made through request or *)
(* request_sync, through every chain of up to MaxStages stages, a few      *)
(* templates, every transport outcome and the cancellation of the          *)
(* transport call.                                                         *)
(***************************************************************************)
PipelineTemplates == {<<"/">>, <<"/", "{", "a", "}">>}
PipelineParams == {NoneV, Some(<<"a">> :> <<"1">>)}

Next ==
    \/ \E c \in {1} :
         \/ request(c, PipelineTemplates, PipelineParams, Types, {"GET"}, {"opts"})
         \/ request_sync(c)
         \/ send(c)
         \/ new_middleware(c)
         \/ BaseMiddleware(c)
         \/ send_inner(c, TransportOutcomes)
         \/ cancel(c)
         \/ middleware_return(c)
         \/ send_return(c)
         \/ Return(c)
    \/ add_middleware(Kinds)

Spec == Init /\ [][Next]_vars

(***************************************************************************)
(* The formatting specification: every template of up to MaxTplLen         *)
(* characters over Chars, parameter values with and without braces, two    *)
(* methods and options, through chains of pass stages and a transport      *)
(* that answers or fails.                                                  *)
(***************************************************************************)
Chars == {"{", "}", "a", "/"}

Templates == UNION {[1..n -> Chars] : n \in 0..MaxTplLen}

FormatParams ==
    {NoneV, Some(<<>>), Some(<<"a">> :> <<"1">>),
     Some(<<"a">> :> <<"{", "a", "}">>), Some(<<"a">> :> <<"}">>)}

FormatOutcomes == {Response(200, "null"), Raised("ConnectError", "")}

NextFormat ==
    \/ \E c \in {1} :
         \/ request(c, Templates, FormatParams, {"None"}, {"GET", "POST"},
                    {"opts", "none"})
         \/ send(c)
         \/ new_middleware(c)
         \/ BaseMiddleware(c)
         \/ send_inner(c, FormatOutcomes)
         \/ middleware_return(c)
         \/ send_return(c)
         \/ Return(c)
    \/ add_middleware({"pass"})

SpecFormat == Init /\ [][NextFormat]_vars

(***************************************************************************)
(* The pair specification: two calls on one client, interleaved at every   *)
(* step, through chains of pass and catch stages.  The calls differ in     *)
(* their method, so that each call's request can be told from the other's. *)
(***************************************************************************)
PairMethod(c) == IF c = 1 THEN "GET" ELSE "POST"

PairOutcomes ==
    {Response(200, "1"), Response(200, "\"a\""), Response(404, ""),
     Raised("ConnectError", "")}

NextPair ==
    \/ \E c \in CallIds :
         \/ request(c, {<<"/">>}, {NoneV}, {"int"}, {PairMethod(c)}, {"opts"})
         \/ send(c)
         \/ new_middleware(c)
         \/ BaseMiddleware(c)
         \/ send_inner(c, PairOutcomes)
         \/ middleware_return(c)
         \/ send_return(c)
         \/ Return(c)
    \/ add_middleware({"pass", "catch"})

SpecPair == Init /\ [][NextPair]_vars


(***************************************************************************)
(* Properties of the pipeline.                                             *)
(***************************************************************************)
Last(q) == q[Len(q)]

\* the call has gone through send and the caller has its outcome
Finished(s) == s.pc = "done" /\ s.request # NoRequest

\* the request phases of stages n, ..., 1 and the response phases of 1, ..., n
RequestPhases(n) == [i \in 1..n |-> <<"req", n + 1 - i>>]
ResponsePhases(n) == [i \in 1..n |-> <<"resp", i>>]

\* C1: onion ordering.  In a send in which every stage called its next exactly
\* once, the request phases ran in the order last added to first added and
\* then the transport; when the transport answered with a response, the
\* response phases followed in the order first added to last added, and
\* nothing else ran.
OnionOrdering ==
    \A c \in CallIds :
        LET s == calls[c]
            n == Len(s.head)
        IN  (Finished(s) /\ \A k \in 1..n : s.nexts[k] = 1) =>
              /\ Len(s.trace) >= n + 1
              /\ SubSeq(s.trace, 1, n + 1) =
                    RequestPhases(n) \o <<<<"transport", 0>>>>
              /\ ~s.answers[1].exc =>
                    s.trace = RequestPhases(n) \o <<<<"transport", 0>>>>
                                  \o ResponsePhases(n)

\* a send through MaxStages stages that each called next once, answered by
\* the transport with a response
OnionOrderingWitness ==
    \E c \in CallIds :
        LET s == calls[c]
        IN  /\ Finished(s)
            /\ Len(s.head) = MaxStages
            /\ \A k \in 1..MaxStages : s.nexts[k] = 1
            /\ ~s.answers[1].exc
            /\ s.trace[1] = <<"req", MaxStages>>
            /\ Last(s.trace) = <<"resp", MaxStages>>

\* C2: a response of the chain head whose status is not 200 ends send with
\* UnexpectedResponse made from that response, carrying its status code and
\* body; the body is neither parsed nor validated and no value is returned,
\* whatever the expected type.
Non200IsUnexpectedResponse ==
    \A c \in CallIds :
        LET s == calls[c]
        IN  (Finished(s) /\ ~s.result.exc /\ s.result.status_code # 200) =>
              /\ s.outcome.kind = "raise"
              /\ s.outcome.err.cls = "UnexpectedResponse"
              /\ s.outcome.err.status_code = s.result.status_code
              /\ s.outcome.err.body = s.result.body
              /\ s.outcome.did = <<"status">>
              /\ s.outcome.val = JNull

\* a 201 with a body that would decode, refused for an expected int
Non200Witness ==
    \E c \in CallIds :
        LET s == calls[c]
        IN  /\ Finished(s)
            /\ s.type_ = "int"
            /\ ~s.result.exc
            /\ s.result.status_code = 201
            /\ s.result.body = "1"
            /\ s.outcome.err.cls = "UnexpectedResponse"
            /\ s.outcome.err.status_code = 201

\* C3: when the transport's last answer to a send is a failure and the chain
\* holds no stage that answers an error with a response, send ends with
\* ApiRequestException wrapping that failure, and neither the status check
\* nor the decoding ran.
TransportFailureIsWrapped ==
    \A c \in CallIds :
        LET s == calls[c]
        IN  (/\ Finished(s)
             /\ s.answers # <<>>
             /\ Last(s.answers).exc
             /\ Last(s.answers).cls \in TransportFailures
             /\ \A k \in 1..Len(s.head) : s.head[k].kind # "catch") =>
              /\ s.outcome.kind = "raise"
              /\ s.outcome.err.cls = "ApiRequestException"
              /\ s.outcome.err.source = Last(s.answers).cls
              /\ s.outcome.did = <<>>
              /\ s.outcome.val = JNull

\* a refused connection that went up through a pass stage to the caller
TransportFailureWitness ==
    \E c \in CallIds :
        LET s == calls[c]
        IN  /\ Finished(s)
            /\ Len(s.head) >= 1
            /\ \A k \in 1..Len(s.head) : s.head[k].kind = "pass"
            /\ s.answers = <<Raised("ConnectError", "")>>
            /\ s.outcome.kind = "raise"
            /\ s.outcome.err.source = "ConnectError"

\* the chain head came back to send with a response of status 200
Got200(s) == Finished(s) /\ ~s.result.exc /\ s.result.status_code = 200

\* a JSON value that already has the expected type: a number for int, a
\* string for str (type_ None, where no body is expected, is C7's case)
Conforms(type_, val) ==
    \/ type_ = "int" /\ val.k = "int"
    \/ type_ = "str" /\ val.k = "str"

\* C5: a 200 response whose body is JSON of the expected type makes send
\* return a value equal to the parsed body, and raise nothing.
ConformingBodyIsReturned ==
    \A c \in CallIds :
        LET s == calls[c]
        IN  (/\ Got200(s)
             /\ Json(s.result.body).err = ""
             /\ Conforms(s.type_, Json(s.result.body).val)) =>
              /\ s.outcome.kind = "return"
              /\ s.outcome.val = Json(s.result.body).val

\* the number 1 returned for an expected int
ConformingBodyWitness ==
    \E c \in CallIds :
        LET s == calls[c]
        IN  /\ Got200(s)
            /\ s.type_ = "int"
            /\ s.result.body = "1"
            /\ s.outcome.kind = "return"
            /\ s.outcome.val = JInt("1")

\* a body the decoding of line 72 does not accept for the expected type: it
\* is not JSON, or its JSON value fails the validation
Rejected(type_, body) ==
    \/ Json(body).err # ""
    \/ Validate(type_, Json(body).val).err # ""

\* C6: a 200 response whose body does not conform to the expected type ends
\* send with the validation error, ApiRequestException wrapping the
\* validation diagnostics, and no value.
NonConformingBodyIsValidationError ==
    \A c \in CallIds :
        LET s == calls[c]
        IN  (Got200(s) /\ Rejected(s.type_, s.result.body)) =>
              /\ s.outcome.kind = "raise"
              /\ s.outcome.err.cls = "ApiRequestException"
              /\ s.outcome.err.source = "ValidationError"

\* C7: with type_ None, a 200 response makes send return None without
\* raising, whatever the body: empty, null or any other JSON value.
NoExpectedBodyReturnsNone ==
    \A c \in CallIds :
        LET s == calls[c]
        IN  (Got200(s) /\ s.type_ = "None") =>
              /\ s.outcome.kind = "return"
              /\ s.outcome.val = JNull

\* why a finished call failed: the transport gave no response and its failure
\* reached send, a 200 body was parsed and failed the validation, or the
\* response was not a 200
Cause(s) ==
    IF Finished(s) /\ s.answers # <<>> /\ s.result.exc
                   /\ Last(s.answers).cls \in TransportFailures
    THEN "transport"
    ELSE IF Got200(s) /\ Json(s.result.body).err = ""
                      /\ Validate(s.type_, Json(s.result.body).val).err # ""
    THEN "validation"
    ELSE IF Finished(s) /\ ~s.result.exc /\ s.result.status_code # 200
    THEN "non200"
    ELSE "other"

RECURSIVE FieldNamesFrom(_, _)
FieldNamesFrom(tpl, i) ==
    IF i > Len(tpl) THEN {}
    ELSE IF tpl[i] \in {"{", "}"} /\ i < Len(tpl) /\ tpl[i + 1] = tpl[i]
    THEN FieldNamesFrom(tpl, i + 2)
    ELSE IF tpl[i] = "{" /\ FieldEnd(tpl, i + 1) <= Len(tpl)
                         /\ tpl[FieldEnd(tpl, i + 1)] = "}"
    THEN {SubSeq(tpl, i + 1, FieldEnd(tpl, i + 1) - 1)}
            \cup FieldNamesFrom(tpl, FieldEnd(tpl, i + 1) + 1)
    ELSE FieldNamesFrom(tpl, i + 1)

FieldNames(tpl) == FieldNamesFrom(tpl, 1)

\* the names path_params gives a value to, none when it is absent
Supplied(path_params) == IF path_params.none THEN {} ELSE DOMAIN path_params.v

\* C8: a template that references a placeholder path_params has no value for
\* makes request fail with a formatting error raised to the caller; no Request
\* is built (so no token is left in a URL), no stage runs and the transport
\* is not called.
MissingPlaceholderFails ==
    \A c \in CallIds :
        LET s == calls[c]
        IN  (/\ s.pc # "idle"
             /\ \E name \in FieldNames(s.args.url) :
                    name \notin Supplied(s.args.path_params)) =>
              /\ s.pc = "done"
              /\ s.outcome.kind = "raise"
              /\ s.outcome.err.cls \in {"KeyError", "IndexError", "ValueError"}
              /\ s.request = NoRequest
              /\ s.head = <<>>
              /\ s.trace = <<>>
              /\ s.sent = <<>>

\* "/{a}" without path_params on a client that has a stage: KeyError, and
\* nothing ran
MissingPlaceholderWitness ==
    \E c \in CallIds :
        LET s == calls[c]
        IN  /\ s.pc = "done"
            /\ chain # <<>>
            /\ s.args.url = <<"/", "{", "a", "}">>
            /\ s.args.path_params = NoneV
            /\ s.outcome.err.cls = "KeyError"
            /\ s.trace = <<>>

\* a "{", and a "}" somewhere after it
HasToken(u) ==
    \E i, j \in 1..Len(u) : i < j /\ u[i] = "{" /\ u[j] = "}"

HasBrace(u) == \E i \in 1..Len(u) : u[i] \in {"{", "}"}

\* the URL of the Request without the host in front
Substituted(s) ==
    SubSeq(s.request.url, Len(HostOrEmpty(host)) + 1, Len(s.request.url))

\* C9, as claimed: whenever the substitution succeeds, whatever the values,
\* the substituted URL holds no {...} token.
SubstitutedUrlHasNoToken ==
    \A c \in CallIds :
        calls[c].request # NoRequest => ~HasToken(Substituted(calls[c]))

\* C9, amended: when the template holds no escaped brace ("{{" or "}}") and
\* no parameter value holds a brace, the substituted URL holds no {...} token
\* (no brace at all), and substituting the same template and parameters
\* again gives the URL of the Request.
SubstitutedUrlHasNoTokenUnlessBraces ==
    \A c \in CallIds :
        LET s == calls[c]
            kw == ParamsOrEmpty(s.args.path_params)
        IN  (/\ s.request # NoRequest
             /\ \A i \in 1..(Len(s.args.url) - 1) :
                    ~(s.args.url[i] \in {"{", "}"} /\ s.args.url[i + 1] = s.args.url[i])
             /\ \A name \in DOMAIN kw : ~HasBrace(kw[name])) =>
              /\ ~HasToken(Substituted(s))
              /\ ~HasBrace(Substituted(s))
              /\ BuildUrl(host, s.args.url, s.args.path_params) =
                    FormatOk(s.request.url)

\* "/{a}" with a |-> "1": the Request is built and its URL ends in "/1"
SubstitutedUrlWitness ==
    \E c \in CallIds :
        LET s == calls[c]
        IN  /\ s.request # NoRequest
            /\ s.args.url = <<"/", "{", "a", "}">>
            /\ s.args.path_params = Some(<<"a">> :> <<"1">>)
            /\ Substituted(s) = <<"/", "1">>

\* C10: the URL of the Request given to the chain is the host, nothing for an
\* absent host, followed by the substituted template; method and options
\* are the caller's.  Host "h", template "/{a}", a |-> "1" gives "h/1".
RequestUrlIsHostThenSubstituted ==
    \A c \in CallIds :
        LET s == calls[c]
        IN  s.request # NoRequest =>
              /\ s.request.url =
                    (IF host.none THEN <<>> ELSE host.v)
                        \o Format(s.args.url, ParamsOrEmpty(s.args.path_params)).s
              /\ s.request.method = s.args.method
              /\ s.request.kwargs = s.args.kwargs
              /\ (s.pc = "down" /\ s.stk = <<>> /\ s.level = Len(s.head)) =>
                    s.arg = s.request
              /\ (/\ host = Some(<<"h">>)
                  /\ s.args.url = <<"/", "{", "a", "}">>
                  /\ s.args.path_params = Some(<<"a">> :> <<"1">>)) =>
                    s.request.url = <<"h", "/", "1">>

\* the example's Request on its way into a chain of MaxStages stages
RequestUrlWitness ==
    \E c \in CallIds :
        LET s == calls[c]
        IN  /\ s.pc = "down"
            /\ Len(s.head) = MaxStages
            /\ s.level = MaxStages
            /\ host = Some(<<"h">>)
            /\ s.args.method = "POST"
            /\ s.arg = Request("POST", <<"h", "/", "1">>, "opts")

(***************************************************************************)
(* Properties of the chain.                                                *)
(***************************************************************************)
\* the levels of the stages waiting for their call_next, outermost first
StackLevels(s) == [i \in 1..Len(s.stk) |-> s.stk[i].level]

\* n, n-1, ..., 1
Descending(n) == [i \in 1..n |-> n + 1 - i]

\* C11: the chain ends at the transport.  Whenever the transport is called,
\* every stage of the head is waiting for its call_next, last added
\* outermost, the request has passed through all of them in that order, and
\* the call came from the first-added stage; what follows a transport call
\* is the response phase (or the error) of the first-added stage, never a
\* request phase.  With no stage at all, send gives the transport the
\* unchanged request exactly once and classifies its response unchanged.
ChainEndsAtTransport ==
    \A c \in CallIds :
        LET s == calls[c]
            n == Len(s.head)
        IN  /\ s.pc = "transport" =>
                /\ s.level = 0
                /\ StackLevels(s) = Descending(n)
                /\ s.arg.marks = Descending(n)
                /\ n >= 1 => Last(s.trace) \in {<<"req", 1>>, <<"err", 1>>}
            /\ \A i \in 1..Len(s.sent) : s.sent[i].marks = Descending(n)
            /\ \A i \in 1..(Len(s.trace) - 1) :
                  s.trace[i] = <<"transport", 0>> =>
                      /\ n >= 1
                      /\ s.trace[i + 1] \in {<<"resp", 1>>, <<"err", 1>>}
            /\ (Finished(s) /\ n = 0) =>
                /\ s.sent = <<s.request>>
                /\ s.trace = <<<<"transport", 0>>>>
                /\ Len(s.answers) = 1
                /\ ~s.answers[1].exc =>
                      /\ s.result = s.answers[1]
                      /\ s.outcome = Classify(s.answers[1], s.type_)
                /\ s.answers[1].exc =>
                      /\ s.outcome.kind = "raise"
                      /\ s.outcome.err.cls \in {"ApiRequestException", "CancelledError"}

\* a finished call whose request went through MaxStages stages to the
\* transport, once
ChainEndsAtTransportWitness ==
    \E c \in CallIds :
        LET s == calls[c]
        IN  /\ Finished(s)
            /\ Len(s.head) = MaxStages
            /\ Len(s.sent) = 1
            /\ s.sent[1].marks = Descending(MaxStages)
            /\ s.trace[MaxStages + 1] = <<"transport", 0>>

\* the outermost stage of the head that answers without calling its next,
\* 0 when the head has none
ShortAt(s) ==
    LET S == {k \in 1..Len(s.head) : s.head[k].kind = "short"}
    IN  IF S = {} THEN 0 ELSE CHOOSE k \in S : \A j \in S : j <= k

\* C12: short-circuit.  When stage k answers without calling its next, no
\* stage added before it runs and the transport is not called; the stages
\* added after it have run their request phases, last added first, and run
\* their response phases, first added first; send classifies the response
\* the stage made: a 200 is decoded, any other status is UnexpectedResponse.
ShortCircuit ==
    \A c \in CallIds :
        LET s == calls[c]
            n == Len(s.head)
            k == ShortAt(s)
            m == n - k + 1
        IN  k >= 1 =>
              /\ s.pc # "transport"
              /\ s.sent = <<>>
              /\ \A i \in 1..Len(s.trace) : s.trace[i][2] >= k
              /\ \A j \in 1..k : s.nexts[j] = 0
              /\ Finished(s) =>
                  /\ s.trace = [i \in 1..m |-> <<"req", n + 1 - i>>]
                                  \o [i \in 1..m |-> <<"resp", k - 1 + i>>]
                  /\ \A j \in (k + 1)..n : s.nexts[j] = 1
                  /\ ~s.result.exc
                  /\ [s.result EXCEPT !.marks = <<>>] \in StageResponses
                  /\ s.result.marks = [i \in 1..m |-> k - 1 + i]
                  /\ s.result.status_code = 200 =>
                        s.outcome = Decode(s.result, s.type_)
                  /\ s.result.status_code # 200 =>
                        /\ s.outcome.kind = "raise"
                        /\ s.outcome.err.cls = "UnexpectedResponse"
                        /\ s.outcome.err.status_code = s.result.status_code
                        /\ s.outcome.did = <<"status">>

\* a stage that answers 200 by itself under a stage added after it: the
\* outer stage ran both its phases and the caller has the decoded value
ShortCircuitWitness ==
    \E c \in CallIds :
        LET s == calls[c]
        IN  /\ Finished(s)
            /\ Len(s.head) = 2
            /\ s.head[1].kind = "short"
            /\ s.head[2].kind = "pass"
            /\ s.trace = <<<<"req", 2>>, <<"req", 1>>, <<"resp", 1>>, <<"resp", 2>>>>
            /\ s.sent = <<>>
            /\ s.type_ = "int"
            /\ s.outcome.kind = "return"
            /\ s.outcome.val = JInt("1")

(***************************************************************************)
(* Properties of calls in progress together, under SpecPair.               *)
(***************************************************************************)
\* 1, 2, ..., n
Ascending(n) == [i \in 1..n |-> i]

Unmarked(x) == [x EXCEPT !.marks = <<>>]

\* the outcome of a call run by itself, from its own request, its own head
\* and the transport's answer to it: the answer goes up through the head's
\* stages and is classified, a failure is wrapped and, when the head has a
\* stage that answers errors, replaced by that stage's response r
Alone(s, r) ==
    LET n == Len(s.head)
        a == s.answers[1]
        C == {k \in 1..n : s.head[k].kind = "catch"}
    IN  IF ~a.exc
        THEN Classify([a EXCEPT !.marks = Ascending(n)], s.type_)
        ELSE IF C = {} THEN Raises(ApiRequestException(a.cls), <<>>)
        ELSE Classify(r, s.type_)

\* C13: calls in progress together do not interfere.  Every step changes the
\* record of one call at most; the request each stage of a call was given,
\* and each request the transport was given for it, is the call's own
\* request (with its own method) and the caller's outcome is the one the
\* call has when run alone with the same answer of the transport.
CallsDoNotInterfere ==
    /\ [](\A c \in CallIds :
            LET s == calls[c]
            IN  /\ s.request # NoRequest =>
                    /\ s.request.method = PairMethod(c)
                    /\ s.request = Request(s.args.method, s.request.url, s.args.kwargs)
                /\ s.pc \in {"down", "transport"} => Unmarked(s.arg) = s.request
                /\ \A i \in 1..Len(s.stk) : Unmarked(s.stk[i].req) = s.request
                /\ \A i \in 1..Len(s.sent) :
                      /\ Unmarked(s.sent[i]) = s.request
                      /\ s.sent[i].method = PairMethod(c)
                /\ Finished(s) =>
                      /\ Len(s.sent) = 1
                      /\ Len(s.answers) = 1
                      /\ s.outcome = Alone(s, s.result))
    /\ [][\A c, d \in CallIds :
            (calls'[c] # calls[c] /\ calls'[d] # calls[d]) => c = d]_vars

\* both calls suspended inside the chain at once, each with the response to
\* its own request: a 200 for the first, a 404 for the second
CallsDoNotInterfereWitness ==
    /\ calls[1].pc = "up"
    /\ calls[2].pc = "up"
    /\ calls[1].stk # <<>>
    /\ calls[2].stk # <<>>
    /\ calls[1].sent[1].method = "GET"
    /\ calls[2].sent[1].method = "POST"
    /\ calls[1].result.status_code = 200
    /\ calls[2].result.status_code = 404

(***************************************************************************)
(* Properties of failures, under Spec.                                     *)
(***************************************************************************)
\* C14: the core neither retries nor recovers.  In a send in which no stage
\* called its next more than once the transport was called at most once;
\* and a call that failed by the transport (the failure reaching send), by
\* the validation or by a status other than 200 ends with that error raised
\* to the caller of request or request_sync: never a value, never nothing.
CoreNeverRetriesNorRecovers ==
    \A c \in CallIds :
        LET s == calls[c]
        IN  /\ (\A k \in 1..Len(s.head) : s.nexts[k] <= 1) => Len(s.sent) <= 1
            /\ Cause(s) # "other" =>
                  /\ s.outcome.kind = "raise"
                  /\ s.outcome.val = JNull
                  /\ s.outcome.err.exc
            /\ Cause(s) = "transport" =>
                  s.outcome.err = ApiRequestException(Last(s.answers).cls)
            /\ Cause(s) = "validation" =>
                  s.outcome.err = ApiRequestException("ValidationError")
            /\ Cause(s) = "non200" =>
                  s.outcome.err = UnexpectedResponse(Unmarked(s.result))

\* a call made through request_sync, through stages that each called next
\* once, that ended with the transport's failure raised to its caller
CoreNeverRetriesWitness ==
    \E c \in CallIds :
        LET s == calls[c]
        IN  /\ Finished(s)
            /\ s.sync
            /\ Len(s.head) = MaxStages
            /\ \A k \in 1..MaxStages : s.nexts[k] = 1
            /\ Len(s.sent) = 1
            /\ Cause(s) = "transport"
            /\ s.outcome.kind = "raise"

\* C15: when the transport call is cancelled or times out while send awaits
\* it and no stage answers the error with a response, the call ends with
\* the transport-level error, ApiRequestException wrapping the cancellation
\* or the timeout: not with the cancellation itself, and not with a value.
CancellationIsTransportError ==
    \A c \in CallIds :
        LET s == calls[c]
        IN  (/\ Finished(s)
             /\ s.answers # <<>>
             /\ Last(s.answers).cls \in {"CancelledError", "ReadTimeout"}
             /\ \A k \in 1..Len(s.head) : s.head[k].kind # "catch") =>
              /\ s.outcome.kind = "raise"
              /\ s.outcome.err.cls = "ApiRequestException"
              /\ s.outcome.err.source = Last(s.answers).cls
              /\ s.outcome.did = <<>>

(***************************************************************************)
(* Properties of add_middleware beside calls in progress.                  *)
(***************************************************************************)
InFlight(s) == s.pc \in {"down", "transport", "up"}

\* C16: a send reads the chain head once, when it starts.  The head it
\* starts with is the chain of that moment, new stage outermost; no later
\* step of the call changes it; add_middleware touches no call, so a send in
\* flight goes on through the stages of its own head and through no other,
\* however the chain has grown since.
HeadIsReadOnce ==
    /\ [](\A c \in CallIds :
            LET s == calls[c]
                n == Len(s.head)
            IN  /\ n <= Len(chain)
                /\ s.head = SubSeq(chain, 1, n)
                /\ \A i \in 1..Len(s.trace) : s.trace[i][2] <= n
                /\ \A i \in 1..Len(s.stk) : s.stk[i].level <= n
                /\ (s.trace # <<>> /\ n >= 1) => s.trace[1] = <<"req", n>>
                /\ s.pc = "transport" => s.arg.marks = Descending(n))
    /\ [][\A c \in CallIds :
            /\ (calls[c].pc = "built" /\ calls'[c].pc = "down") =>
                  /\ calls'[c].head = chain
                  /\ calls'[c].level = Len(chain)
            /\ (InFlight(calls[c]) /\ calls'[c].pc # "idle") =>
                  calls'[c].head = calls[c].head
            /\ chain' # chain => calls'[c] = calls[c]]_vars

\* a call that started with one stage and saw a second stage added before
\* its head came back to send: it has gone through the first stage alone
HeadIsReadOnceWitness ==
    \E c \in CallIds :
        LET s == calls[c]
        IN  /\ s.pc = "up"
            /\ s.stk = <<>>
            /\ Len(s.head) = 1
            /\ Len(chain) = 2
            /\ s.trace = <<<<"req", 1>>, <<"transport", 0>>, <<"resp", 1>>>>

\* the stages of old are all in new, in the order they had
StagesKept(old, new) ==
    SelectSeq(new, LAMBDA st : st.id <= Len(old)) = old

\* C17: frame effects.  No step changes host or the transport instance.  A
\* step that changes the chain is add_middleware: it changes no call, adds
\* one stage and keeps every earlier stage in its earlier order.  A step of
\* request, request_sync, send or send_inner, ending well or in an error,
\* leaves the chain as it was.
ChainOnlyGrowsByAddMiddleware ==
    [][/\ host' = host
       /\ async_client' = async_client
       /\ chain' # chain =>
            /\ calls' = calls
            /\ Len(chain') = Len(chain) + 1
            /\ StagesKept(chain, chain')
       /\ calls' # calls => chain' = chain]_vars

\* a call that failed on a client with a host, after MaxStages stages were
\* added one by one: the chain holds them all, in the order of addition
ChainOnlyGrowsWitness ==
    \E c \in CallIds :
        LET s == calls[c]
        IN  /\ Finished(s)
            /\ s.outcome.kind = "raise"
            /\ host = Some(<<"h">>)
            /\ async_client = "AsyncClient"
            /\ Len(chain) = MaxStages
            /\ \A k \in 1..MaxStages : chain[k].id = k
            /\ s.head = chain

(***************************************************************************)
(* Properties of what the stages hand to each other, under Spec.           *)
(***************************************************************************)
\* the request the stage waiting at place i of the stack passed to its next:
\* the request it was given, with its own change
PassedOn(s, i) == Mark(s.stk[i].req, s.head[s.stk[i].level].id)

\* k, k+1, ..., t-1
Run(k, t) == [i \in 1..(t - k) |-> k - 1 + i]

\* C18: hand-over along the chain.  The outermost stage is given the request
\* given to send, every other stage the request the stage added right after
\* it passed to next, and the transport the request the first-added stage
\* passed to next.  A response on its way up has passed, from the transport
\* or from the stage that made it, through each stage in the order of
\* addition, none left out, every stage being given what the one before it
\* returned; send classifies the response the last-added stage returned.
HandOver ==
    \A c \in CallIds :
        LET s == calls[c]
            n == Len(s.head)
            d == Len(s.stk)
            t == IF d = 0 THEN n + 1 ELSE s.stk[d].level
        IN  /\ \A i \in 1..d :
                /\ s.stk[i].level = n + 1 - i
                /\ s.stk[i].req = IF i = 1 THEN s.request ELSE PassedOn(s, i - 1)
            /\ s.pc \in {"down", "transport"} =>
                /\ s.level = t - 1
                /\ s.arg = IF d = 0 THEN s.request ELSE PassedOn(s, d)
            /\ \A i \in 1..Len(s.sent) :
                  s.sent[i] = [s.request EXCEPT !.marks = Descending(n)]
            /\ (s.pc = "up" /\ ~s.result.exc) =>
                  \/ /\ s.answers # <<>>
                     /\ Unmarked(s.result) = Last(s.answers)
                     /\ s.result.marks = Run(1, t)
                  \/ \E k \in 1..(t - 1) :
                     /\ s.head[k].kind \in {"short", "catch"}
                     /\ Unmarked(s.result) \in StageResponses
                     /\ s.result.marks = Run(k, t)
            /\ (Finished(s) /\ ~s.result.exc) =>
                  /\ n >= 1 => Last(s.result.marks) = n
                  /\ s.outcome = Classify(s.result, s.type_)

\* a request that went down through MaxStages stages, each handing on what
\* it was given with its own change, and the transport's response that came
\* back up through all of them to send
HandOverWitness ==
    \E c \in CallIds :
        LET s == calls[c]
        IN  /\ Finished(s)
            /\ Len(s.head) = MaxStages
            /\ s.sent = <<[s.request EXCEPT !.marks = Descending(MaxStages)]>>
            /\ ~s.answers[1].exc
            /\ s.result = [s.answers[1] EXCEPT !.marks = Ascending(MaxStages)]
            /\ s.outcome.kind = "return"

(***************************************************************************)
(* Properties of errors inside the chain, under Spec.                      *)
(***************************************************************************)
\* what the trace holds after the last call of the transport
AfterTransport(s) ==
    LET T == {i \in 1..Len(s.trace) : s.trace[i] = <<"transport", 0>>}
        j == CHOOSE i \in T : \A h \in T : h <= i
    IN  SubSeq(s.trace, j + 1, Len(s.trace))

\* the error came out of the next of stages k, ..., t-1, in this order
ErrRun(k, t) == [i \in 1..(t - k) |-> <<"err", k - 1 + i>>]
RespRun(k, t) == [i \in 1..(t - k) |-> <<"resp", k - 1 + i>>]

\* the error send_inner raises for the transport's answer a
SendInnerError(a) ==
    {ApiRequestException(a.cls)}
        \cup (IF a.cls \in BaseExceptions THEN {Raised(a.cls, "")} ELSE {})

\* C19: a failure of the transport is raised out of the innermost next and
\* comes out of the next of each stage in turn, first added first, the same
\* error all the way; a stage that answers the error with a response stops
\* it there, the stages after it get the response, and send classifies the
\* response as any other; when no stage does, the error reaches the caller
\* as send_inner raised it.
ErrorPropagation ==
    \A c \in CallIds :
        LET s == calls[c]
            n == Len(s.head)
            d == Len(s.stk)
            t == IF d = 0 THEN n + 1 ELSE s.stk[d].level
            failed == s.answers # <<>> /\ Last(s.answers).exc
        IN  /\ (s.pc = "up" /\ s.result.exc) =>
                /\ failed
                /\ s.result \in SendInnerError(Last(s.answers))
                /\ AfterTransport(s) = ErrRun(1, t)
            /\ (s.pc = "up" /\ ~s.result.exc /\ failed) =>
                \E k \in 1..(t - 1) :
                    /\ s.head[k].kind = "catch"
                    /\ Unmarked(s.result) \in StageResponses
                    /\ AfterTransport(s) = ErrRun(1, k + 1) \o RespRun(k, t)
            /\ (Finished(s) /\ failed) =>
                /\ s.result.exc =>
                    /\ AfterTransport(s) = ErrRun(1, n + 1)
                    /\ s.outcome = Raises(s.result, <<>>)
                    /\ s.outcome.err \in SendInnerError(Last(s.answers))
                /\ ~s.result.exc =>
                    /\ \E k \in 1..n : s.head[k].kind = "catch"
                    /\ s.result.status_code = 200 =>
                          s.outcome = Decode(s.result, s.type_)
                    /\ s.result.status_code # 200 =>
                          /\ s.outcome.kind = "raise"
                          /\ s.outcome.err.cls = "UnexpectedResponse"
                /\ (\A k \in 1..n : s.head[k].kind = "pass") => s.result.exc

\* a refused connection that came out of the next of a pass stage and was
\* answered by the stage added after it with a 200, which send decoded
ErrorPropagationWitness ==
    \E c \in CallIds :
        LET s == calls[c]
        IN  /\ Finished(s)
            /\ Len(s.head) = 2
            /\ s.head[1].kind = "pass"
            /\ s.head[2].kind = "catch"
            /\ s.answers = <<Raised("ConnectError", "")>>
            /\ s.trace = <<<<"req", 2>>, <<"req", 1>>, <<"transport", 0>>,
                           <<"err", 1>>, <<"err", 2>>, <<"resp", 2>>>>
            /\ s.type_ = "int"
            /\ s.outcome.kind = "return"

\* C20: the status check and the decoding run after the outermost stage has
\* returned.  While a call is inside the chain send has checked and decoded
\* nothing; an error that comes out of a stage's next is the error
\* send_inner raised, never UnexpectedResponse and never the wrapped
\* ValidationError; and when send has raised one of these two, every stage
\* had returned its response before: the last thing that ran in the chain
\* is the response phase of the last-added stage.
ClassificationOutsideChain ==
    \A c \in CallIds :
        LET s == calls[c]
            n == Len(s.head)
        IN  /\ InFlight(s) => s.outcome = NoOutcome
            /\ s.outcome.did # <<>> => (s.pc = "done" /\ s.stk = <<>>)
            /\ (s.pc = "up" /\ s.result.exc) =>
                  /\ s.result.cls # "UnexpectedResponse"
                  /\ s.result.source # "ValidationError"
                  /\ s.result \in SendInnerError(Last(s.answers))
            /\ (/\ Finished(s)
                /\ \/ s.outcome.err.cls = "UnexpectedResponse"
                   \/ s.outcome.err.source = "ValidationError") =>
                  /\ ~s.result.exc
                  /\ s.outcome.did # <<>>
                  /\ n >= 1 => Last(s.trace) = <<"resp", n>>
                  /\ n = 0 => Last(s.trace) = <<"transport", 0>>

\* a 200 whose body fails the validation, after MaxStages stages returned
\* it without an error: the wrapped ValidationError is raised by send, past
\* the last stage
ClassificationOutsideChainWitness ==
    \E c \in CallIds :
        LET s == calls[c]
        IN  /\ Finished(s)
            /\ Len(s.head) = MaxStages
            /\ s.type_ = "int"
            /\ s.answers = <<Response(200, "\"a\"")>>
            /\ Last(s.trace) = <<"resp", MaxStages>>
            /\ \A i \in 1..Len(s.trace) : s.trace[i][1] # "err"
            /\ s.outcome.kind = "raise"
            /\ s.outcome.err.source = "ValidationError"

====
